---- MODULE Spec2Model ----
(***************************************************************************)
(* Model of drivers/gpu/drm/drm_panic_qr.c: the version selector           *)
(* (find_version), the segment bit-cost accounting                         *)
(* (segment_total_size_bits) and the entry point drm_panic_qr_generate.    *)
(*                                                                         *)
(* size_t values are kept at their width.  The model takes the 32-bit      *)
(* build (size_t is unsigned int), where a payload of 2^29 bytes is        *)
(* addressable; on the 64-bit build the same arithmetic wraps at 2^61.     *)
(* TLC integers stop at 2^31 - 1, so a size_t is held as a little-endian   *)
(* sequence of 16-bit limbs; one extra limb above the size_t width lets    *)
(* the claims state the unwrapped (mathematical) value next to the value   *)
(* the C arithmetic produces.                                              *)
(***************************************************************************)
EXTENDS Integers, Sequences, FiniteSets, TLC

(* ------------------------------------------------------------------ *)
(* size_t arithmetic                                                   *)
(* ------------------------------------------------------------------ *)

\* Bits of a size_t (unsigned int on the 32-bit build); limbs hold 16 bits.
SIZE_BITS == 32

Base == 2 ^ 16
SizeLimbs == SIZE_BITS \div 16
WideLimbs == SizeLimbs + 1

\* The wide number of a small natural (n < 2^31).
W(n) == [i \in 1..WideLimbs |->
            IF i = 1 THEN n % Base ELSE IF i = 2 THEN n \div Base ELSE 0]

\* TRUE when the number is below 2^16 * 2^15, i.e. it is a TLC integer.
IsSmall(x) == x[2] < 2 ^ 15 /\ \A i \in 3..WideLimbs : x[i] = 0

\* The natural of a small wide number.
N(x) == x[1] + Base * x[2]

RECURSIVE CarryInto(_, _, _)
\* Carry into limb i of the limb-wise sums s (carry into limb 1 is c0).
CarryInto(s, i, c0) ==
    IF i = 1 THEN c0 ELSE (s[i - 1] + CarryInto(s, i - 1, c0)) \div Base

\* Limb-wise sums of s reduced to limbs; the carry out of the top limb
\* is dropped (callers keep the top limb free).
Normalize(s) == [i \in 1..WideLimbs |-> (s[i] + CarryInto(s, i, 0)) % Base]

\* Unwrapped sum and product by a small constant (k < 2^15).
WAdd(x, y) == Normalize([i \in 1..WideLimbs |-> x[i] + y[i]])
WMul(x, k) == Normalize([i \in 1..WideLimbs |-> x[i] * k])

RECURSIVE LeqFrom(_, _, _)
LeqFrom(x, y, i) ==
    IF i = 0 THEN TRUE
    ELSE IF x[i] # y[i] THEN x[i] < y[i]
    ELSE LeqFrom(x, y, i - 1)

\* x <= y and x < y on wide numbers.
WLeq(x, y) == LeqFrom(x, y, WideLimbs)
WLess(x, y) == x # y /\ WLeq(x, y)

\* Conversion to size_t: reduction modulo 2^SIZE_BITS.
SzWrap(x) == [i \in 1..WideLimbs |-> IF i > SizeLimbs THEN 0 ELSE x[i]]

\* size_t addition and multiplication by a small constant, as C computes them.
SzAdd(x, y) == SzWrap(WAdd(x, y))
SzMul(x, k) == SzWrap(WMul(x, k))

\* size_t subtraction: x - y modulo 2^SIZE_BITS (x plus the two's complement
\* of y).
SzSub(x, y) ==
    SzWrap(WAdd(WAdd(x, [i \in 1..WideLimbs |->
                            IF i > SizeLimbs THEN 0 ELSE Base - 1 - y[i]]),
                W(1)))

\* 2^(SIZE_BITS - 3) as a size_t: the smallest length whose product by 8
\* wraps to 0.
WrapLen == [i \in 1..WideLimbs |-> IF i = SizeLimbs THEN Base \div 8 ELSE 0]

\* SIZE_MAX.
SizeMax == [i \in 1..WideLimbs |-> IF i > SizeLimbs THEN 0 ELSE Base - 1]

(* ------------------------------------------------------------------ *)
(* Static tables and constants                                         *)
(* ------------------------------------------------------------------ *)

\* Generator polynomials P7..P30, by the number of their entries.
P7 == <<
    87, 229, 146, 149, 238, 102, 21 >>

P10 == <<
    251, 67, 46, 61, 118, 70, 64, 94, 32, 45 >>

P15 == <<
    8, 183, 61, 91, 202, 37, 51, 58, 58, 237, 140, 124, 5, 99, 105 >>

P18 == <<
    215, 234, 158, 94, 184, 97, 118, 170, 79, 187, 152, 148, 252, 179, 5, 98,
    96, 153 >>

P20 == <<
    17, 60, 79, 50, 61, 163, 26, 187, 202, 180, 221, 225, 83, 239, 156, 164,
    212, 212, 188, 190 >>

P22 == <<
    210, 171, 247, 242, 93, 230, 14, 109, 221, 53, 200, 74, 8, 172, 98, 80,
    219, 134, 160, 105, 165, 231 >>

P24 == <<
    229, 121, 135, 48, 211, 117, 251, 126, 159, 180, 169, 152, 192, 226, 228, 218,
    111, 0, 117, 232, 87, 96, 227, 21 >>

P26 == <<
    173, 125, 158, 2, 103, 182, 118, 17, 145, 201, 111, 28, 165, 53, 161, 21,
    245, 142, 13, 102, 48, 227, 153, 145, 218, 70 >>

P28 == <<
    168, 223, 200, 104, 224, 234, 108, 180, 110, 190, 195, 147, 205, 27, 232, 201,
    21, 43, 245, 87, 42, 195, 212, 119, 242, 37, 9, 123 >>

P30 == <<
    41, 173, 145, 152, 216, 31, 179, 182, 50, 48, 110, 86, 239, 96, 222, 125,
    42, 173, 226, 193, 224, 130, 156, 37, 251, 216, 238, 40, 192, 180 >>

\* The generator table of poly_len entries.
poly_of(poly_len) ==
    CASE poly_len = 7 -> P7 [] poly_len = 10 -> P10 [] poly_len = 15 -> P15
      [] poly_len = 18 -> P18 [] poly_len = 20 -> P20 [] poly_len = 22 -> P22
      [] poly_len = 24 -> P24 [] poly_len = 26 -> P26 [] poly_len = 28 -> P28
      [] poly_len = 30 -> P30

\* struct version_parameter VPARAM[40]: {poly, poly_len, g1_blocks, g2_blocks,
\* g1_blk_size}; poly is the generator table the entry points to.
VPARAM == <<
    [poly |-> P7, poly_len |-> 7, g1_blocks |-> 1, g2_blocks |-> 0,
     g1_blk_size |-> 19],
    [poly |-> P10, poly_len |-> 10, g1_blocks |-> 1, g2_blocks |-> 0,
     g1_blk_size |-> 34],
    [poly |-> P15, poly_len |-> 15, g1_blocks |-> 1, g2_blocks |-> 0,
     g1_blk_size |-> 55],
    [poly |-> P20, poly_len |-> 20, g1_blocks |-> 1, g2_blocks |-> 0,
     g1_blk_size |-> 80],
    [poly |-> P26, poly_len |-> 26, g1_blocks |-> 1, g2_blocks |-> 0,
     g1_blk_size |-> 108],
    [poly |-> P18, poly_len |-> 18, g1_blocks |-> 2, g2_blocks |-> 0,
     g1_blk_size |-> 68],
    [poly |-> P20, poly_len |-> 20, g1_blocks |-> 2, g2_blocks |-> 0,
     g1_blk_size |-> 78],
    [poly |-> P24, poly_len |-> 24, g1_blocks |-> 2, g2_blocks |-> 0,
     g1_blk_size |-> 97],
    [poly |-> P30, poly_len |-> 30, g1_blocks |-> 2, g2_blocks |-> 0,
     g1_blk_size |-> 116],
    [poly |-> P18, poly_len |-> 18, g1_blocks |-> 2, g2_blocks |-> 2,
     g1_blk_size |-> 68],
    [poly |-> P20, poly_len |-> 20, g1_blocks |-> 4, g2_blocks |-> 0,
     g1_blk_size |-> 81],
    [poly |-> P24, poly_len |-> 24, g1_blocks |-> 2, g2_blocks |-> 2,
     g1_blk_size |-> 92],
    [poly |-> P26, poly_len |-> 26, g1_blocks |-> 4, g2_blocks |-> 0,
     g1_blk_size |-> 107],
    [poly |-> P30, poly_len |-> 30, g1_blocks |-> 3, g2_blocks |-> 1,
     g1_blk_size |-> 115],
    [poly |-> P22, poly_len |-> 22, g1_blocks |-> 5, g2_blocks |-> 1,
     g1_blk_size |-> 87],
    [poly |-> P24, poly_len |-> 24, g1_blocks |-> 5, g2_blocks |-> 1,
     g1_blk_size |-> 98],
    [poly |-> P28, poly_len |-> 28, g1_blocks |-> 1, g2_blocks |-> 5,
     g1_blk_size |-> 107],
    [poly |-> P30, poly_len |-> 30, g1_blocks |-> 5, g2_blocks |-> 1,
     g1_blk_size |-> 120],
    [poly |-> P28, poly_len |-> 28, g1_blocks |-> 3, g2_blocks |-> 4,
     g1_blk_size |-> 113],
    [poly |-> P28, poly_len |-> 28, g1_blocks |-> 3, g2_blocks |-> 5,
     g1_blk_size |-> 107],
    [poly |-> P28, poly_len |-> 28, g1_blocks |-> 4, g2_blocks |-> 4,
     g1_blk_size |-> 116],
    [poly |-> P28, poly_len |-> 28, g1_blocks |-> 2, g2_blocks |-> 7,
     g1_blk_size |-> 111],
    [poly |-> P30, poly_len |-> 30, g1_blocks |-> 4, g2_blocks |-> 5,
     g1_blk_size |-> 121],
    [poly |-> P30, poly_len |-> 30, g1_blocks |-> 6, g2_blocks |-> 4,
     g1_blk_size |-> 117],
    [poly |-> P26, poly_len |-> 26, g1_blocks |-> 8, g2_blocks |-> 4,
     g1_blk_size |-> 106],
    [poly |-> P28, poly_len |-> 28, g1_blocks |-> 10, g2_blocks |-> 2,
     g1_blk_size |-> 114],
    [poly |-> P30, poly_len |-> 30, g1_blocks |-> 8, g2_blocks |-> 4,
     g1_blk_size |-> 122],
    [poly |-> P30, poly_len |-> 30, g1_blocks |-> 3, g2_blocks |-> 10,
     g1_blk_size |-> 117],
    [poly |-> P30, poly_len |-> 30, g1_blocks |-> 7, g2_blocks |-> 7,
     g1_blk_size |-> 116],
    [poly |-> P30, poly_len |-> 30, g1_blocks |-> 5, g2_blocks |-> 10,
     g1_blk_size |-> 115],
    [poly |-> P30, poly_len |-> 30, g1_blocks |-> 13, g2_blocks |-> 3,
     g1_blk_size |-> 115],
    [poly |-> P30, poly_len |-> 30, g1_blocks |-> 17, g2_blocks |-> 0,
     g1_blk_size |-> 115],
    [poly |-> P30, poly_len |-> 30, g1_blocks |-> 17, g2_blocks |-> 1,
     g1_blk_size |-> 115],
    [poly |-> P30, poly_len |-> 30, g1_blocks |-> 13, g2_blocks |-> 6,
     g1_blk_size |-> 115],
    [poly |-> P30, poly_len |-> 30, g1_blocks |-> 12, g2_blocks |-> 7,
     g1_blk_size |-> 121],
    [poly |-> P30, poly_len |-> 30, g1_blocks |-> 6, g2_blocks |-> 14,
     g1_blk_size |-> 121],
    [poly |-> P30, poly_len |-> 30, g1_blocks |-> 17, g2_blocks |-> 4,
     g1_blk_size |-> 122],
    [poly |-> P30, poly_len |-> 30, g1_blocks |-> 4, g2_blocks |-> 18,
     g1_blk_size |-> 122],
    [poly |-> P30, poly_len |-> 30, g1_blocks |-> 20, g2_blocks |-> 4,
     g1_blk_size |-> 117],
    [poly |-> P30, poly_len |-> 30, g1_blocks |-> 19, g2_blocks |-> 6,
     g1_blk_size |-> 118] >>

\* Exponential table of GF(256); entry i of the array is EXP_TABLE[i + 1].
EXP_TABLE == <<
    1, 2, 4, 8, 16, 32, 64, 128, 29, 58, 116, 232, 205, 135, 19, 38,
    76, 152, 45, 90, 180, 117, 234, 201, 143, 3, 6, 12, 24, 48, 96, 192,
    157, 39, 78, 156, 37, 74, 148, 53, 106, 212, 181, 119, 238, 193, 159, 35,
    70, 140, 5, 10, 20, 40, 80, 160, 93, 186, 105, 210, 185, 111, 222, 161,
    95, 190, 97, 194, 153, 47, 94, 188, 101, 202, 137, 15, 30, 60, 120, 240,
    253, 231, 211, 187, 107, 214, 177, 127, 254, 225, 223, 163, 91, 182, 113, 226,
    217, 175, 67, 134, 17, 34, 68, 136, 13, 26, 52, 104, 208, 189, 103, 206,
    129, 31, 62, 124, 248, 237, 199, 147, 59, 118, 236, 197, 151, 51, 102, 204,
    133, 23, 46, 92, 184, 109, 218, 169, 79, 158, 33, 66, 132, 21, 42, 84,
    168, 77, 154, 41, 82, 164, 85, 170, 73, 146, 57, 114, 228, 213, 183, 115,
    230, 209, 191, 99, 198, 145, 63, 126, 252, 229, 215, 179, 123, 246, 241, 255,
    227, 219, 171, 75, 150, 49, 98, 196, 149, 55, 110, 220, 165, 87, 174, 65,
    130, 25, 50, 100, 200, 141, 7, 14, 28, 56, 112, 224, 221, 167, 83, 166,
    81, 162, 89, 178, 121, 242, 249, 239, 195, 155, 43, 86, 172, 69, 138, 9,
    18, 36, 72, 144, 61, 122, 244, 245, 247, 243, 251, 235, 203, 139, 11, 22,
    44, 88, 176, 125, 250, 233, 207, 131, 27, 54, 108, 216, 173, 71, 142, 1 >>

\* Reverse exponential table of GF(256); entry x of the array is
\* LOG_TABLE[x + 1].
LOG_TABLE == <<
    175, 0, 1, 25, 2, 50, 26, 198, 3, 223, 51, 238, 27, 104, 199, 75,
    4, 100, 224, 14, 52, 141, 239, 129, 28, 193, 105, 248, 200, 8, 76, 113,
    5, 138, 101, 47, 225, 36, 15, 33, 53, 147, 142, 218, 240, 18, 130, 69,
    29, 181, 194, 125, 106, 39, 249, 185, 201, 154, 9, 120, 77, 228, 114, 166,
    6, 191, 139, 98, 102, 221, 48, 253, 226, 152, 37, 179, 16, 145, 34, 136,
    54, 208, 148, 206, 143, 150, 219, 189, 241, 210, 19, 92, 131, 56, 70, 64,
    30, 66, 182, 163, 195, 72, 126, 110, 107, 58, 40, 84, 250, 133, 186, 61,
    202, 94, 155, 159, 10, 21, 121, 43, 78, 212, 229, 172, 115, 243, 167, 87,
    7, 112, 192, 247, 140, 128, 99, 13, 103, 74, 222, 237, 49, 197, 254, 24,
    227, 165, 153, 119, 38, 184, 180, 124, 17, 68, 146, 217, 35, 32, 137, 46,
    55, 63, 209, 91, 149, 188, 207, 205, 144, 135, 151, 178, 220, 252, 190, 97,
    242, 86, 211, 171, 20, 42, 93, 158, 132, 60, 57, 83, 71, 109, 65, 162,
    31, 45, 67, 216, 183, 123, 164, 118, 196, 23, 73, 236, 127, 12, 111, 246,
    108, 161, 59, 82, 41, 157, 85, 170, 251, 96, 134, 177, 187, 204, 62, 90,
    203, 89, 95, 176, 156, 169, 160, 81, 11, 245, 22, 235, 122, 117, 44, 215,
    79, 174, 213, 233, 230, 231, 173, 232, 116, 214, 244, 234, 168, 80, 88, 175 >>

\* Padding bytes.
PADDING == <<
    236, 17 >>

\* EXP_TABLE[i] with i off by one.
exp_entry_next(i) == EXP_TABLE[((i + 1) % 256) + 1]

\* EXP_TABLE[i] and LOG_TABLE[x] as C indexes them, from 0.
exp_entry(i) == EXP_TABLE[i + 1]
log_entry(x) == LOG_TABLE[x + 1]

\* P_k[i] read from the far end of the table.
poly_entry_reversed(k, i) == poly_of(k)[k - i]

\* P_k[i], from 0.
poly_entry(k, i) == poly_of(k)[i + 1]

MODE_NUMERIC == 1
MODE_BINARY == 4

\* Number of bits to encode characters in numeric mode.
NUM_CHARS_BITS == <<0, 4, 7, 10>>

\* Fixed minimum capacities of the output and scratch buffers.
MIN_DATA_SIZE == 4071
MIN_TMP_SIZE == 3706

\* Last version of the scan in find_version.
MAX_VERSION == 40

(* ------------------------------------------------------------------ *)
(* Pure functions                                                      *)
(* ------------------------------------------------------------------ *)

\* length_bits with the binary length field 16 bits wide at every version.
length_bits_wide(mode, version) ==
    IF mode = MODE_BINARY
    THEN 16
    ELSE (IF version <= 9 THEN 10 ELSE IF version <= 26 THEN 12 ELSE 14)

\* Length-field width of a segment mode at a version.
length_bits(mode, version) ==
    IF mode = MODE_BINARY
    THEN (IF version <= 9 THEN 8 ELSE 16)
    ELSE (IF version <= 9 THEN 10 ELSE IF version <= 26 THEN 12 ELSE 14)

\* data_bits of segment_total_size_bits: seg->len * 8 in size_t, in the
\* binary branch and (simplified) in the numeric branch alike.
data_bits(seg) ==
    IF seg.mode = MODE_BINARY THEN SzMul(seg.len, 8) ELSE SzMul(seg.len, 8)

\* segment_total_size_bits: 4 + length_bits + data_bits, in size_t.
segment_total_size_bits(seg, version) ==
    SzAdd(W(4 + length_bits(seg.mode, version)), data_bits(seg))

\* max_data_bits with the blocks of group 1 only.
max_data_bits_group1(version) ==
    LET vp == VPARAM[version]
    IN (vp.g1_blk_size * vp.g1_blocks) * 8

\* max_data_bits with the blocks of group 2 as short as those of group 1.
max_data_bits_flat(version) ==
    LET vp == VPARAM[version]
    IN (vp.g1_blk_size * vp.g1_blocks + vp.g1_blk_size * vp.g2_blocks) * 8

\* max_data_bits of find_version: int arithmetic on the u8 fields.
max_data_bits(version) ==
    LET vp == VPARAM[version]
    IN (vp.g1_blk_size * vp.g1_blocks + (vp.g1_blk_size + 1) * vp.g2_blocks) * 8

RECURSIVE total_bits(_, _, _)
\* The inner loop of find_version: total_bits over segments[0..num-1].
total_bits(segs, num, version) ==
    IF num = 0 THEN W(0)
    ELSE SzAdd(total_bits(segs, num - 1, version),
               segment_total_size_bits(segs[num], version))

\* The test of find_version: max_data_bits >= total_bits, in size_t.
version_fits(segs, version) ==
    WLeq(total_bits(segs, Len(segs), version), W(max_data_bits(version)))

\* max_data of drm_panic_qr_max_data_size: the data codewords of a version.
max_data(version) ==
    LET vp == VPARAM[version]
    IN vp.g1_blk_size * vp.g1_blocks + (vp.g1_blk_size + 1) * vp.g2_blocks

\* drm_panic_qr_max_data_size with no byte taken off for the segment header
\* when there is no url.
drm_panic_qr_max_data_size_whole(version, url_len) ==
    IF version < 1 \/ version > MAX_VERSION THEN W(0)
    ELSE IF url_len # W(0)
         THEN IF WLeq(W(max_data(version)), SzAdd(url_len, W(5)))
              THEN W(0)
              ELSE W((N(SzSub(SzSub(W(max_data(version)), url_len), W(5))) * 39)
                     \div 40)
         ELSE W(max_data(version))

\* drm_panic_qr_max_data_size(version, url_len), in size_t.  When the test
\* url_len + 5 >= max_data fails, max_data - url_len - 5 is below max_data,
\* so the product by 39 is a small number.
drm_panic_qr_max_data_size(version, url_len) ==
    IF version < 1 \/ version > MAX_VERSION THEN W(0)
    ELSE IF url_len # W(0)
         THEN IF WLeq(W(max_data(version)), SzAdd(url_len, W(5)))
              THEN W(0)
              ELSE W((N(SzSub(SzSub(W(max_data(version)), url_len), W(5))) * 39)
                     \div 40)
         ELSE IF max_data(version) > 3 THEN W(max_data(version) - 3) ELSE W(0)

\* buffers_rejected with the output minimum one byte too low.
buffers_rejected_short(dlen, dsize, tsize) ==
    \/ WLess(dsize, W(MIN_DATA_SIZE - 1))
    \/ WLess(tsize, W(MIN_TMP_SIZE))
    \/ WLess(dsize, dlen)

\* The early rejection of drm_panic_qr_generate.
buffers_rejected(dlen, dsize, tsize) ==
    \/ WLess(dsize, W(MIN_DATA_SIZE))
    \/ WLess(tsize, W(MIN_TMP_SIZE))
    \/ WLess(dsize, dlen)

\* The segment list drm_panic_qr_generate builds; strlen(url) is u.len.
build_segments(u, dlen) ==
    IF ~u.null
    THEN << [mode |-> MODE_BINARY, len |-> W(u.len)],
            [mode |-> MODE_NUMERIC, len |-> dlen] >>
    ELSE << [mode |-> MODE_BINARY, len |-> dlen] >>

\* width_of with the constant term off by one (16 instead of 17).
width_of_even(version) == (version * 4 + 16) % 256

\* width = version * 4 + 17, stored in a u8.
width_of(version) == (version * 4 + 17) % 256

\* symbol_bytes with one byte for each module.
symbol_bytes_square(w) == w * w

\* Bytes of the symbol: width * ((width + 7) / 8), int arithmetic.
symbol_bytes(w) == w * ((w + 7) \div 8)

\* Bytes the placeholder memset clears at the start of the output buffer.
cleared_bytes(dlen, dsize, w) ==
    IF dlen # W(0) /\ WLeq(W(symbol_bytes(w)), dsize) THEN symbol_bytes(w) ELSE 0

(* ------------------------------------------------------------------ *)
(* Inputs                                                              *)
(* ------------------------------------------------------------------ *)

\* Payload lengths 0..MaxSmallLen are all tried, besides the lengths at
\* the version-40 boundaries and one length at which len * 8 wraps.
MaxSmallLen == 18

NULL == [null |-> TRUE, len |-> 0]
UrlLens == {2, 3}
Urls == {NULL} \cup {[null |-> FALSE, len |-> n] : n \in UrlLens}

BoundaryLens == {2953, 2954, 7076, 7078}
DataLens == {W(n) : n \in (0..MaxSmallLen) \cup BoundaryLens} \cup {WrapLen}

DataSizes == {W(MIN_DATA_SIZE - 1), W(MIN_DATA_SIZE), SizeMax}
TmpSizes == {W(MIN_TMP_SIZE - 1), W(MIN_TMP_SIZE)}

\* What both caller buffers hold before a call wherever they hold no
\* payload: every such byte is 0x00, or every such byte is 0xFF.
Fills == {0, 255}

\* A pointer argument is NULL or points to the caller's buffer.
Pointers == {"NULL", "buf"}

\* Calls with valid pointers, and calls with one NULL pointer, adequate
\* capacities and an empty or a one-byte payload.
ValidCalls ==
    {[url |-> u, data |-> "buf", data_len |-> dl, data_size |-> ds,
      tmp |-> "buf", tmp_size |-> ts, fill |-> f] :
        u \in Urls, dl \in DataLens, ds \in DataSizes, ts \in TmpSizes, f \in Fills}
NullCalls ==
    {[url |-> NULL, data |-> pp[1], data_len |-> W(n), data_size |-> W(MIN_DATA_SIZE),
      tmp |-> pp[2], tmp_size |-> W(MIN_TMP_SIZE), fill |-> 0] :
        n \in {0, 1}, pp \in {<<"NULL", "buf">>, <<"buf", "NULL">>}}
Calls == ValidCalls \cup NullCalls

\* A byte of a buffer: a known value, or the payload byte at that offset.
ConstByte(b) == <<"const", b>>
PayloadByte == <<"payload", 0>>

RECURSIVE merge_runs(_, _, _)
\* Runs <<end offset, byte>> of a region, empty runs dropped and equal
\* neighbours joined; `from` is the offset the next run starts at.
merge_runs(runs, from, acc) ==
    IF runs = << >> THEN acc
    ELSE LET r == Head(runs)
         IN IF r[1] <= from THEN merge_runs(Tail(runs), from, acc)
            ELSE IF acc # << >> /\ acc[Len(acc)][2] = r[2]
                 THEN merge_runs(Tail(runs), r[1],
                                 [acc EXCEPT ![Len(acc)] = r])
                 ELSE merge_runs(Tail(runs), r[1], Append(acc, r))

\* Contents of the first `size` bytes of data[]: `cleared` zero bytes from
\* the memset, then what is left of the payload, then the bytes the buffer
\* held before the call.
data_region(cleared, dlen, f, size) ==
    LET z == IF cleared < size THEN cleared ELSE size
        l == IF IsSmall(dlen) /\ N(dlen) < size THEN N(dlen) ELSE size
        p == IF l > z THEN l ELSE z
    IN merge_runs(<< <<z, ConstByte(0)>>, <<p, PayloadByte>>, <<size, ConstByte(f)>> >>,
                  0, << >>)

NoCall == [valid |-> FALSE, data_len |-> W(0), ret |-> 0, symbol |-> << >>]

(* ------------------------------------------------------------------ *)
(* State                                                               *)
(* ------------------------------------------------------------------ *)

VARIABLES
    pc,            \* position in drm_panic_qr_generate
    url,           \* argument url: NULL or a string of url.len bytes
    data_len,      \* argument data_len
    data_size,     \* argument data_size
    tmp_size,      \* argument tmp_size
    segments,      \* segments[0..num_segments-1]
    scan,          \* loop variable `version` of find_version
    version,       \* local `version` of drm_panic_qr_generate
    width,         \* local `width` (u8)
    ret,           \* value returned by the call
    data_cleared,  \* leading bytes of data[] written by the call
    tmp_written,   \* bytes of tmp[] written by the call
    prev,          \* the call before this one, when it had the same url
                   \* and buffers: its data_len, return value and symbol
    data,          \* argument data: "NULL" or "buf"
    tmp,           \* argument tmp: "NULL" or "buf"
    fill,          \* byte both buffers hold before the call outside the payload
    null_deref,    \* the call has read or written through a NULL pointer
    frames,        \* the frames of two invocations that run interleaved
    statics,       \* the writable static storage of the file (it has none)
    mds_version,   \* argument version of drm_panic_qr_max_data_size
    mds_url_len,   \* argument url_len of drm_panic_qr_max_data_size
    mds_ret,       \* value returned by drm_panic_qr_max_data_size
    payload,       \* the payload bytes the caller put in data[]
    prev_payload,  \* the payload bytes of the call before this one
    gf_i,          \* index looked up in EXP_TABLE and LOG_TABLE
    gf_log,        \* LOG_TABLE[gf_i]
    gf_exp,        \* EXP_TABLE[gf_i]
    gen_k,         \* the generator table P_k being read (0: none)
    gen_i,         \* index of the entry read in P_k
    gen_entry,     \* the entry read: P_k[gen_i] for k = gen_k
    fit_segs,      \* a segment list whose cost is assessed
    fit_version    \* the version it is assessed at

vars == <<pc, url, data_len, data_size, tmp_size, segments, scan, version,
          width, ret, data_cleared, tmp_written, prev, data, tmp, fill,
          null_deref, frames, statics, mds_version, mds_url_len, mds_ret,
          payload, prev_payload, gf_i, gf_log, gf_exp, gen_k, gen_i, gen_entry,
          fit_segs, fit_version>>

args == <<url, data_len, data_size, tmp_size, data, tmp, fill>>
locals == <<segments, scan, version, width>>
buffers == <<data_cleared, tmp_written, null_deref>>
reentrant == <<frames, statics>>
sized == <<mds_version, mds_url_len, mds_ret>>
payloads == <<payload, prev_payload>>
field == <<gf_i, gf_log, gf_exp, gen_k, gen_i, gen_entry>>
fitting == <<fit_segs, fit_version>>
others == <<frames, statics, mds_version, mds_url_len, mds_ret, payloads,
            field, fitting>>

\* A frame of drm_panic_qr_generate outside any call.
IdleFrame ==
    [pc |-> "idle", url |-> NULL, data_len |-> W(0), data_size |-> W(0),
     tmp_size |-> W(0), segments |-> << >>, scan |-> 0, version |-> 0,
     width |-> 0, ret |-> 0, data_cleared |-> 0, tmp_written |-> 0]

\* The file defines no writable object of static storage duration.
NoStatics == << >>

Init ==
    /\ pc = "idle"
    /\ url = NULL
    /\ data_len = W(0)
    /\ data_size = W(0)
    /\ tmp_size = W(0)
    /\ segments = << >>
    /\ scan = 0
    /\ version = 0
    /\ width = 0
    /\ ret = 0
    /\ data_cleared = 0
    /\ tmp_written = 0
    /\ prev = NoCall
    /\ data = "buf"
    /\ tmp = "buf"
    /\ fill = 0
    /\ null_deref = FALSE
    /\ frames = [i \in 1..2 |-> IdleFrame]
    /\ statics = NoStatics
    /\ mds_version = 0
    /\ mds_url_len = W(0)
    /\ mds_ret = W(0)
    /\ payload = "A"
    /\ prev_payload = "A"
    /\ gf_i = 0
    /\ gf_log = LOG_TABLE[1]
    /\ gf_exp = EXP_TABLE[1]
    /\ gen_k = 0
    /\ gen_i = 0
    /\ gen_entry = 0
    /\ fit_segs = << >>
    /\ fit_version = 1

(* ------------------------------------------------------------------ *)
(* drm_panic_qr_generate, statement by statement                       *)
(* ------------------------------------------------------------------ *)

\* The frame of a call: the arguments are set and every local is fresh.
Enter(c) ==
    /\ pc' = "check"
    /\ url' = c.url
    /\ data' = c.data
    /\ data_len' = c.data_len
    /\ data_size' = c.data_size
    /\ tmp' = c.tmp
    /\ tmp_size' = c.tmp_size
    /\ fill' = c.fill
    /\ segments' = << >>
    /\ scan' = 0
    /\ version' = 0
    /\ width' = 0
    /\ ret' = 0
    /\ data_cleared' = 0
    /\ tmp_written' = 0
    /\ null_deref' = FALSE

\* A caller enters drm_panic_qr_generate(url, data, data_len, data_size,
\* tmp, tmp_size).
Call(c) ==
    /\ pc = "idle"
    /\ Enter(c)
    /\ prev' = NoCall
    /\ UNCHANGED others

\* The caller calls again with the same url and buffers and a payload of
\* dl bytes, the buffers holding f outside the payload; the finished call
\* is remembered in prev with the symbol bytes it left in data[].
CallAgain(dl, f) ==
    /\ pc = "done"
    /\ Enter([url |-> url, data |-> data, data_len |-> dl, data_size |-> data_size,
              tmp |-> tmp, tmp_size |-> tmp_size, fill |-> f])
    /\ prev' = [valid |-> TRUE, data_len |-> data_len, ret |-> ret,
                symbol |-> data_region(data_cleared, data_len, fill,
                                       symbol_bytes(ret))]
    /\ UNCHANGED others

\* The caller is done with the result; nothing of the call is kept.
Leave ==
    /\ pc = "done"
    /\ pc' = "idle"
    /\ url' = NULL
    /\ data' = "buf"
    /\ data_len' = W(0)
    /\ data_size' = W(0)
    /\ tmp' = "buf"
    /\ tmp_size' = W(0)
    /\ fill' = 0
    /\ segments' = << >>
    /\ scan' = 0
    /\ version' = 0
    /\ width' = 0
    /\ ret' = 0
    /\ data_cleared' = 0
    /\ tmp_written' = 0
    /\ null_deref' = FALSE
    /\ prev' = NoCall
    /\ UNCHANGED others

\* if (data_size < 4071 || tmp_size < 3706 || data_len > data_size) return 0;
CheckBuffers ==
    /\ pc = "check"
    /\ IF buffers_rejected(data_len, data_size, tmp_size)
       THEN pc' = "done" /\ ret' = 0
       ELSE pc' = "segments" /\ ret' = ret
    /\ UNCHANGED <<args, locals, buffers, prev, others>>

\* if (url) { two segments } else { one segment }; enter find_version.
BuildSegments ==
    /\ pc = "segments"
    /\ segments' = build_segments(url, data_len)
    /\ scan' = 1
    /\ pc' = "find"
    /\ UNCHANGED <<args, version, width, ret, buffers, prev, others>>

\* One iteration of the loop of find_version.
FindVersionStep ==
    /\ pc = "find"
    /\ scan <= MAX_VERSION
    /\ IF version_fits(segments, scan)
       THEN /\ version' = scan          \* return version;
            /\ scan' = scan
            /\ pc' = "width"
       ELSE /\ scan' = scan + 1
            /\ version' = version
            /\ pc' = "find"
    /\ UNCHANGED <<args, segments, width, ret, buffers, prev, others>>

\* FindVersionNone with the output buffer cleared for the largest symbol
\* before the failure is returned.
FindVersionNone_cleared ==
    /\ pc = "find"
    /\ scan > MAX_VERSION
    /\ version' = 0
    /\ ret' = 0
    /\ pc' = "done"
    /\ data_cleared' = symbol_bytes(width_of(MAX_VERSION))
    /\ UNCHANGED <<args, segments, scan, width, tmp_written, null_deref, prev,
                   others>>

\* The loop of find_version ends: return 0; if (!version) return 0;
FindVersionNone ==
    /\ pc = "find"
    /\ scan > MAX_VERSION
    /\ version' = 0
    /\ ret' = 0
    /\ pc' = "done"
    /\ UNCHANGED <<args, segments, scan, width, buffers, prev, others>>

\* width = version * 4 + 17;
SetWidth ==
    /\ pc = "width"
    /\ width' = width_of(version)
    /\ pc' = "clear"
    /\ UNCHANGED <<args, segments, scan, version, ret, buffers, prev, others>>

\* if (data_len > 0 && data_size >= width * ((width + 7) / 8)) memset(...);
\* memset through a NULL data pointer is undefined: the store faults and the
\* call never returns, or it lands at address 0 and the call goes on.
ClearOutput ==
    /\ pc = "clear"
    /\ LET n == cleared_bytes(data_len, data_size, width)
       IN IF n > 0 /\ data = "NULL"
          THEN /\ null_deref' = TRUE
               /\ \/ pc' = "fault" /\ data_cleared' = data_cleared
                  \/ pc' = "return" /\ data_cleared' = n
          ELSE /\ null_deref' = null_deref
               /\ data_cleared' = n
               /\ pc' = "return"
    /\ UNCHANGED <<args, locals, ret, tmp_written, prev, others>>

\* return width;
Return ==
    /\ pc = "return"
    /\ ret' = width
    /\ pc' = "done"
    /\ UNCHANGED <<args, locals, buffers, prev, others>>

Next ==
    \/ \E c \in Calls : Call(c)
    \/ \E dl \in DataLens, f \in Fills : CallAgain(dl, f)
    \/ Leave
    \/ CheckBuffers
    \/ BuildSegments
    \/ FindVersionStep
    \/ FindVersionNone
    \/ SetWidth
    \/ ClearOutput
    \/ Return

Spec == Init /\ [][Next]_vars

TypeOK ==
    /\ pc \in {"idle", "check", "segments", "find", "width", "clear", "return",
               "done", "fault", "sized"}
    /\ data \in Pointers /\ tmp \in Pointers /\ fill \in Fills
    /\ url.null \in BOOLEAN /\ url.len \in 0..MaxSmallLen
    /\ scan \in 0..(MAX_VERSION + 1)
    /\ version \in 0..MAX_VERSION
    /\ width \in 0..255
    /\ ret \in 0..255

(* ------------------------------------------------------------------ *)
(* The specification's notions, used to state the claims               *)
(* ------------------------------------------------------------------ *)

\* Data capacity of a version in bits, from the version table.
capacity_bits(v) ==
    8 * (VPARAM[v].g1_blocks * VPARAM[v].g1_blk_size
         + VPARAM[v].g2_blocks * (VPARAM[v].g1_blk_size + 1))

\* Length-field width of the specification (section 4.3).
SpecLengthWidth(mode, v) ==
    IF mode = MODE_BINARY
    THEN (IF v <= 9 THEN 8 ELSE 16)
    ELSE (IF v <= 9 THEN 10 ELSE IF v <= 26 THEN 12 ELSE 14)

\* Payload bits of n characters: 8 per byte; 10 per group of 3 digits plus
\* 4 or 7 bits for a tail of 1 or 2 digits, i.e. ceil(10 * n / 3).
SpecPayloadBits(mode, n) ==
    IF mode = MODE_BINARY THEN 8 * n
    ELSE 10 * (n \div 3) + NUM_CHARS_BITS[(n % 3) + 1]

\* A length below 2^16: every longer segment costs more bits than the
\* capacity of version 40 in either mode, so only these can fit.
ShortLen(x) == IsSmall(x) /\ N(x) < Base

SpecSegmentCost(seg, v) ==
    4 + SpecLengthWidth(seg.mode, v) + SpecPayloadBits(seg.mode, N(seg.len))

RECURSIVE SpecCostUpTo(_, _, _)
SpecCostUpTo(segs, k, v) ==
    IF k = 0 THEN 0
    ELSE SpecCostUpTo(segs, k - 1, v) + SpecSegmentCost(segs[k], v)

\* total_cost(v): summed cost of the segments at v's length-field tier.
SpecTotalCost(segs, v) == SpecCostUpTo(segs, Len(segs), v)

\* The segments fit version v.
SpecFits(segs, v) ==
    /\ \A i \in 1..Len(segs) : ShortLen(segs[i].len)
    /\ SpecTotalCost(segs, v) <= capacity_bits(v)

\* The segment list of the current call: one binary segment when url is
\* NULL, the binary url and the numeric payload otherwise.
CallSegments ==
    IF url.null
    THEN << [mode |-> MODE_BINARY, len |-> data_len] >>
    ELSE << [mode |-> MODE_BINARY, len |-> W(url.len)],
            [mode |-> MODE_NUMERIC, len |-> data_len] >>

\* Both buffers have at least their fixed minimum capacity.
AdequateBuffers ==
    WLeq(W(4071), data_size) /\ WLeq(W(3706), tmp_size)

Returned == pc = "done"

(* ------------------------------------------------------------------ *)
(* Claims                                                              *)
(* ------------------------------------------------------------------ *)

\* C1: in every call that selects a version, the selected version v is the
\* smallest version in 1..40 whose capacity holds the summed segment cost:
\* v fits and no u < v fits.
C1_SmallestFittingVersion ==
    (Returned /\ version # 0) =>
        /\ SpecFits(CallSegments, version)
        /\ \A u \in 1..(version - 1) : ~SpecFits(CallSegments, u)

\* C2: every successful call returns exactly 4 * v + 17 for the selected
\* version v in 1..40: an odd value in 21..177, unchanged by the u8 type.
C2_WidthOfVersion ==
    (Returned /\ ret # 0) =>
        /\ version \in 1..40
        /\ ret = 4 * version + 17
        /\ ret % 2 = 1
        /\ ret \in 21..177

\* C2 witness: a call has returned the width of version 40.
C2_Witness == Returned /\ version = 40 /\ ret = 177

\* C3: with data_size below 4071 or tmp_size below 3706 the call returns 0
\* and, at every point of the call, has written no byte of either buffer.
C3_UndersizedRejected ==
    (pc # "idle" /\ ~AdequateBuffers) =>
        /\ data_cleared = 0
        /\ tmp_written = 0
        /\ pc \in {"check", "done"}
        /\ Returned => ret = 0

\* C3 witness: a call with a non-empty payload and an output buffer one
\* byte short has returned.
C3_Witness ==
    /\ Returned
    /\ data_size = W(4070)
    /\ tmp_size = W(3706)
    /\ data_len = W(1)
    /\ ret = 0

\* C4: whenever the summed bit cost of the segments exceeds the capacity of
\* every version 1..40, find_version finds no version and the call returns 0.
C4_CapacityError ==
    (Returned /\ \A v \in 1..40 : ~SpecFits(CallSegments, v)) =>
        (version = 0 /\ ret = 0)

\* C5: a call with adequate buffers whose segments fit some version 1..40
\* returns a non-zero width.
C5_OnlyTwoFailures ==
    (Returned /\ AdequateBuffers /\ \E v \in 1..40 : SpecFits(CallSegments, v)) =>
        ret # 0

\* C6: for every binary segment of n bytes and every version v in 1..40,
\* segment_total_size_bits is 4 + w + 8 * n, w = 8 up to version 9 and 16
\* above (the right-hand side is the unwrapped value).
C6_BinaryCost ==
    \A i \in 1..Len(segments) : \A v \in 1..40 :
        segments[i].mode = MODE_BINARY =>
            segment_total_size_bits(segments[i], v)
                = WAdd(W(4 + (IF v <= 9 THEN 8 ELSE 16)), WMul(segments[i].len, 8))

\* C7: for every numeric segment of n digits and every version v in 1..40,
\* segment_total_size_bits is 4 + w + ceil(10 * n / 3), w = 10, 12, 14 by
\* tier: 10 bits per group of 3 digits plus NUM_CHARS_BITS[n mod 3].
C7_NumericCost ==
    \A i \in 1..Len(segments) : \A v \in 1..40 :
        (segments[i].mode = MODE_NUMERIC /\ ShortLen(segments[i].len)) =>
            LET n == N(segments[i].len)
                w == IF v <= 9 THEN 10 ELSE IF v <= 26 THEN 12 ELSE 14
            IN segment_total_size_bits(segments[i], v)
                   = W(4 + w + 10 * (n \div 3) + NUM_CHARS_BITS[(n % 3) + 1])

\* C8: a segment list given to find_version whose cost at the version-40
\* tier is exactly 23648 bits is accepted with version 40 (width 177); one
\* whose cost is 23649 bits is rejected.
C8_Version40Boundary ==
    (Returned /\ segments # << >> /\ \A i \in 1..Len(segments) : ShortLen(segments[i].len)) =>
        /\ SpecTotalCost(segments, 40) = 23648 => (version = 40 /\ ret = 177)
        /\ SpecTotalCost(segments, 40) = 23649 => (version = 0 /\ ret = 0)

\* C9: with url NULL and adequate buffers every payload of 0..17 bytes
\* selects version 1 (width 21, 7 ECC codewords); 18 bytes do not.
C9_SmallestSymbol ==
    (Returned /\ url.null /\ AdequateBuffers /\ ShortLen(data_len)) =>
        /\ N(data_len) <= 17 =>
              (version = 1 /\ ret = 21 /\ VPARAM[version].poly_len = 7)
        /\ N(data_len) = 18 => version # 1

\* C9 witness: the 17-byte payload has been encoded at width 21.
C9_Witness ==
    Returned /\ url.null /\ data_len = W(17) /\ version = 1 /\ ret = 21

\* C10: for a fixed url and fixed adequate buffers and lengths L < L': if
\* both calls succeed the width does not decrease, and if the call with L
\* fails the call with L' fails too.
C10_Monotonic ==
    (Returned /\ prev.valid /\ AdequateBuffers) =>
        LET Mono(l1, r1, l2, r2) ==
                WLess(l1, l2) =>
                    /\ (r1 # 0 /\ r2 # 0) => r1 <= r2
                    /\ r1 = 0 => r2 = 0
        IN /\ Mono(prev.data_len, prev.ret, data_len, ret)
           /\ Mono(data_len, ret, prev.data_len, prev.ret)

\* C11: two calls with the same url, payload, data_len and buffer capacities
\* return the same value and leave the same bytes in the symbol region of
\* data[] (its first width * ceil(width / 8) bytes), whatever the buffer
\* held outside the payload before each call.
C11_Idempotent ==
    (Returned /\ data = "buf" /\ prev.valid /\ prev.data_len = data_len) =>
        /\ ret = prev.ret
        /\ data_region(data_cleared, data_len, fill, symbol_bytes(ret)) = prev.symbol

\* C12: a call with a NULL data or tmp pointer returns 0 and never reads or
\* writes through the NULL pointer.
C12_NullRejected ==
    (pc # "idle" /\ (data = "NULL" \/ tmp = "NULL")) =>
        /\ ~null_deref
        /\ pc # "fault"
        /\ Returned => ret = 0

(* ------------------------------------------------------------------ *)
(* Two invocations of drm_panic_qr_generate, interleaved               *)
(* ------------------------------------------------------------------ *)

\* Arguments of the interleaved invocations; data and tmp are valid and
\* each invocation has buffers of its own.
ReentrantCalls ==
    [url : {NULL, [null |-> FALSE, len |-> 2]},
     data_len : {W(0), W(MaxSmallLen), W(2954)},
     data_size : {W(MIN_DATA_SIZE - 1), W(MIN_DATA_SIZE)},
     tmp_size : {W(MIN_TMP_SIZE)}]

\* The frame on entry: the arguments are set and every local is fresh.
entry_frame(c) ==
    [IdleFrame EXCEPT !.pc = "check", !.url = c.url, !.data_len = c.data_len,
                      !.data_size = c.data_size, !.tmp_size = c.tmp_size]

\* One statement of drm_panic_qr_generate on the frame f: it reads VPARAM
\* and the frame and writes the frame and the caller's buffers (counted in
\* the frame).
frame_statement(f) ==
    CASE f.pc = "check" ->
            IF buffers_rejected(f.data_len, f.data_size, f.tmp_size)
            THEN [f EXCEPT !.pc = "done", !.ret = 0]
            ELSE [f EXCEPT !.pc = "segments"]
       [] f.pc = "segments" ->
            [f EXCEPT !.segments = build_segments(f.url, f.data_len),
                      !.scan = 1, !.pc = "find"]
       [] f.pc = "find" ->
            IF f.scan > MAX_VERSION
            THEN [f EXCEPT !.version = 0, !.ret = 0, !.pc = "done"]
            ELSE IF version_fits(f.segments, f.scan)
                 THEN [f EXCEPT !.version = f.scan, !.pc = "width"]
                 ELSE [f EXCEPT !.scan = f.scan + 1]
       [] f.pc = "width" ->
            [f EXCEPT !.width = width_of(f.version), !.pc = "clear"]
       [] f.pc = "clear" ->
            [f EXCEPT !.data_cleared =
                          cleared_bytes(f.data_len, f.data_size, f.width),
                      !.pc = "return"]
       [] f.pc = "return" ->
            [f EXCEPT !.ret = f.width, !.pc = "done"]
       [] OTHER -> f

\* frame_step with the loop variable of find_version in static storage.
frame_step_static(f, st) ==
    LET g == IF f.pc = "find" /\ st # NoStatics THEN [f EXCEPT !.scan = st[1]] ELSE f
        r == frame_statement(g)
    IN [st |-> IF r.pc = "find" THEN <<r.scan>> ELSE st, f |-> r]

\* One statement of an invocation with the static storage st: no statement
\* of the file writes static storage, st is returned as it was found.
frame_step(f, st) ==
    [st |-> st, f |-> frame_statement(f)]

RECURSIVE run_alone(_)
\* The frame an invocation ends with when no other invocation runs.
run_alone(f) ==
    IF f.pc = "done" THEN f ELSE run_alone(frame_step(f, NoStatics).f)

\* Invocation i is entered with the arguments c.
FrameEnter(i, c) ==
    /\ frames[i].pc = "idle"
    /\ frames' = [frames EXCEPT ![i] = entry_frame(c)]
    /\ UNCHANGED <<pc, args, locals, ret, buffers, prev, statics,
                   mds_version, mds_url_len, mds_ret, payloads, field, fitting>>

\* Invocation i executes its next statement.
FrameStep(i) ==
    /\ frames[i].pc \notin {"idle", "done"}
    /\ LET r == frame_step(frames[i], statics)
       IN /\ frames' = [frames EXCEPT ![i] = r.f]
          /\ statics' = r.st
    /\ UNCHANGED <<pc, args, locals, ret, buffers, prev,
                   mds_version, mds_url_len, mds_ret, payloads, field, fitting>>

NextReentrant ==
    \/ \E i \in 1..2, c \in ReentrantCalls : FrameEnter(i, c)
    \/ \E i \in 1..2 : FrameStep(i)

SpecReentrant == Init /\ [][NextReentrant]_vars

\* C13: of two invocations with interleaved steps on disjoint buffers, each
\* returns the value and leaves its buffers (bytes of data[] cleared, bytes
\* of tmp[] written) as when it runs alone, and static storage is never
\* written.
C13_Reentrant ==
    /\ statics = NoStatics
    /\ \A i \in 1..2 :
          frames[i].pc = "done" =>
              LET a == run_alone(entry_frame(frames[i]))
              IN /\ frames[i].ret = a.ret
                 /\ frames[i].data_cleared = a.data_cleared
                 /\ frames[i].tmp_written = a.tmp_written

\* Both invocations have returned, one with a symbol and one without, and
\* the first ran its version scan while the second was inside its own.
C13_Witness ==
    /\ frames[1].pc = "done" /\ frames[1].ret = 25
    /\ frames[2].pc = "done" /\ frames[2].ret = 0 /\ frames[2].scan > MAX_VERSION

\* Statements a call can still execute before it returns: at most one per
\* remaining version of the scan, plus the straight-line statements.
StepsLeft ==
    CASE pc = "check" -> MAX_VERSION + 6
      [] pc = "segments" -> MAX_VERSION + 5
      [] pc = "find" -> (MAX_VERSION + 1 - scan) + 4
      [] pc = "width" -> 3
      [] pc = "clear" -> 2
      [] pc = "return" -> 1
      [] OTHER -> 0

\* C14: every call returns: inside a call the next statement can always be
\* executed (the call is never stuck), the version scan is at iteration 1..40
\* or has just ended, each iteration sums at most 2 segment costs, and the
\* number of statements left before the return is bounded.
C14_Terminates ==
    (pc \notin {"idle", "done"}) =>
        /\ pc \in {"check", "segments", "find", "width", "clear", "return"}
        /\ pc = "find" => scan \in 1..(MAX_VERSION + 1)
        /\ Len(segments) <= 2
        /\ StepsLeft \in 1..(MAX_VERSION + 6)

\* Data codewords of a QR symbol at error-correction level L, versions 1..40
\* (ISO/IEC 18004, table 7).
QR_L_DATA_CODEWORDS == <<
    19, 34, 55, 80, 108, 136, 156, 194, 232, 274,
    324, 370, 428, 461, 523, 589, 647, 721, 795, 861,
    932, 1006, 1094, 1174, 1276, 1370, 1468, 1531, 1631, 1735,
    1843, 1955, 2071, 2191, 2306, 2434, 2566, 2702, 2812, 2956 >>

\* C15: at every iteration of the version scan the capacity the code computes
\* from VPARAM[version - 1] is 8 bits for each data codeword of that version
\* at level L (19, 34, 55, ..., 2956 bytes for versions 1..40).
C15_VersionTable ==
    (pc = "find" /\ scan <= MAX_VERSION) =>
        /\ Len(QR_L_DATA_CODEWORDS) = MAX_VERSION
        /\ max_data_bits(scan) = 8 * QR_L_DATA_CODEWORDS[scan]

\* The scan is at version 40, whose table entry has blocks in both groups.
C15_Witness ==
    pc = "find" /\ scan = MAX_VERSION /\ VPARAM[scan].g2_blocks > 0

\* The character count of a segment is below 2^w, w the length-field width
\* of the segment's mode at version v.
LengthFieldHolds(seg, v) ==
    IsSmall(seg.len) /\ N(seg.len) < 2 ^ SpecLengthWidth(seg.mode, v)

\* C16: after every successful call the character count of each segment
\* (url length, data_len) is strictly less than 2^w, w the length-field
\* width of the segment's mode at the tier of the selected version.
C16_LengthFits ==
    (Returned /\ ret # 0) =>
        \A i \in 1..Len(CallSegments) : LengthFieldHolds(CallSegments[i], version)

(* ------------------------------------------------------------------ *)
(* drm_panic_qr_max_data_size and a call sized by it                   *)
(* ------------------------------------------------------------------ *)

\* Arguments of drm_panic_qr_max_data_size: every u8 version from 0 to one
\* past the last, and url lengths that are 0, short, longer than the least
\* capacity, and so close to SIZE_MAX that url_len + 5 wraps.
MdsVersions == 0..(MAX_VERSION + 1)
MdsUrlLens == {W(0), W(2), W(3), W(MaxSmallLen), SzSub(SizeMax, W(4))}

\* A url of this length can be held in memory next to the buffers.
UrlExists(len) == IsSmall(len) /\ N(len) <= MaxSmallLen

\* A caller asks for the payload size of a version.
MaxDataSize(v, ul) ==
    /\ pc = "idle"
    /\ pc' = "sized"
    /\ mds_version' = v
    /\ mds_url_len' = ul
    /\ mds_ret' = drm_panic_qr_max_data_size(v, ul)
    /\ UNCHANGED <<args, locals, ret, buffers, prev, frames, statics, payloads,
                   field, fitting>>

\* The caller then encodes a payload of the returned size plus x bytes,
\* with a url of the length it asked for (NULL for 0) and buffers of the
\* minimum capacities.
GenerateSized(x) ==
    /\ pc = "sized"
    /\ UrlExists(mds_url_len)
    /\ Enter([url |-> IF mds_url_len = W(0) THEN NULL
                      ELSE [null |-> FALSE, len |-> N(mds_url_len)],
              data |-> "buf", data_len |-> SzAdd(mds_ret, W(x)),
              data_size |-> W(MIN_DATA_SIZE), tmp |-> "buf",
              tmp_size |-> W(MIN_TMP_SIZE), fill |-> 0])
    /\ prev' = NoCall
    /\ UNCHANGED others

\* The caller drops the size without encoding.
DropSize ==
    /\ pc = "sized"
    /\ pc' = "idle"
    /\ UNCHANGED <<args, locals, ret, buffers, prev, others>>

NextSized ==
    \/ \E v \in MdsVersions, ul \in MdsUrlLens : MaxDataSize(v, ul)
    \/ \E x \in {0, 1} : GenerateSized(x)
    \/ DropSize
    \/ Leave
    \/ CheckBuffers
    \/ BuildSegments
    \/ FindVersionStep
    \/ FindVersionNone
    \/ SetWidth
    \/ ClearOutput
    \/ Return

SpecSized == Init /\ [][NextSized]_vars

\* The running or finished call encodes the size the caller was given for a
\* version in 1..40, plus x bytes.
SizedCall(x) ==
    /\ mds_version \in 1..MAX_VERSION
    /\ mds_ret # W(0)
    /\ data_len = SzAdd(mds_ret, W(x))

\* C17: for every version v in 1..40 and url_len with
\* n = drm_panic_qr_max_data_size(v, url_len) > 0, the call with that url,
\* data_len = n and adequate buffers succeeds and selects a version <= v
\* (returned width <= 4*v + 17).
C17_MaxSizeFits ==
    (Returned /\ SizedCall(0)) =>
        /\ ret # 0
        /\ version \in 1..mds_version
        /\ ret <= 4 * mds_version + 17

\* A call sized for version 40 with a url returns the width of version 40.
C17_Witness ==
    /\ Returned /\ SizedCall(0)
    /\ mds_version = MAX_VERSION /\ ~url.null
    /\ ret = 177

\* C18: for every version v in 1..40 and url_len with
\* n = drm_panic_qr_max_data_size(v, url_len) > 0, a payload of n + 1 bytes
\* with the same url does not fit v: its summed segment cost at v exceeds
\* v's capacity and the call selects a version > v or fails.
C18_MaxSizeIsMaximal ==
    (Returned /\ SizedCall(1)) =>
        /\ ~SpecFits(CallSegments, mds_version)
        /\ ret = 0 \/ version > mds_version

(* ------------------------------------------------------------------ *)
(* Codewords in the scratch buffer                                     *)
(* ------------------------------------------------------------------ *)

\* Byte i of tmp[] during and after a call: no statement of the file stores
\* to tmp[], the byte is the one the buffer held before the call.
tmp_byte(i) == fill

\* The codewords of version v with one codeword too many for each block of
\* the second group.
total_codewords_long(v) ==
    max_data(v) + VPARAM[v].g2_blocks
        + VPARAM[v].poly_len * (VPARAM[v].g1_blocks + VPARAM[v].g2_blocks)

\* The codewords a symbol of version v carries: data codewords plus poly_len
\* error-correction codewords for each block.
total_codewords(v) ==
    max_data(v) + VPARAM[v].poly_len * (VPARAM[v].g1_blocks + VPARAM[v].g2_blocks)

RECURSIVE XorBits(_, _, _)
\* Bitwise exclusive or of the low n bits of a and b.
XorBits(a, b, n) ==
    IF n = 0 THEN 0
    ELSE ((a + b) % 2) + 2 * XorBits(a \div 2, b \div 2, n - 1)

\* Sum and product in GF(256), the product through the two tables.
gf_add(a, b) == XorBits(a, b, 8)
gf_mul(a, b) ==
    IF a = 0 \/ b = 0 THEN 0
    ELSE EXP_TABLE[((LOG_TABLE[a + 1] + LOG_TABLE[b + 1]) % 255) + 1]

\* Coefficients of x^(k-1) .. x^0 of the generator polynomial of degree k;
\* the tables hold their logarithms.
generator(k) == [i \in 1..k |-> EXP_TABLE[poly_of(k)[i] + 1]]

RECURSIVE rem_shift(_, _, _, _, _)
\* One step of the long division: the remainder r times x plus the
\* coefficient c, less r[1] times the generator g; built entry by entry
\* from entry j on.
rem_shift(r, c, g, j, acc) ==
    IF j > Len(g) THEN acc
    ELSE rem_shift(r, c, g, j + 1,
                   Append(acc, gf_add(IF j < Len(g) THEN r[j + 1] ELSE c,
                                      gf_mul(r[1], g[j]))))

RECURSIVE poly_rem(_, _, _, _)
\* Remainder of the polynomial msg[i..] (high-order coefficient first)
\* continued from the remainder r, modulo x^k + g.
poly_rem(msg, i, r, g) ==
    IF i > Len(msg) THEN r
    ELSE LET s == rem_shift(r, msg[i], g, 1, << >>)
         IN IF Len(s) = Len(g) THEN poly_rem(msg, i + 1, s, g) ELSE s

\* Block b (from 0) of group 1 as the scratch buffer holds it: g1_blk_size
\* data codewords from the start of tmp[], then its poly_len error-correction
\* codewords, which follow the data codewords of all blocks.
codeword_block(v, b) ==
    LET vp == VPARAM[v]
    IN [i \in 1..(vp.g1_blk_size + vp.poly_len) |->
           IF i <= vp.g1_blk_size
           THEN tmp_byte(b * vp.g1_blk_size + i - 1)
           ELSE tmp_byte(max_data(v) + b * vp.poly_len + i - vp.g1_blk_size - 1)]

\* C19: after a successful call the encoder has produced the codewords of
\* the selected version in tmp[], and each data block followed by its
\* poly_len error-correction bytes, divided in GF(256) by the generator
\* polynomial of degree poly_len, leaves the zero remainder.
C19_ReedSolomon ==
    (Returned /\ ret # 0 /\ data = "buf" /\ tmp = "buf") =>
        /\ tmp_written >= total_codewords(version)
        /\ \A b \in 0..(VPARAM[version].g1_blocks - 1) :
              LET k == VPARAM[version].poly_len
              IN poly_rem(codeword_block(version, b), 1, [j \in 1..k |-> 0],
                          generator(k)) = [j \in 1..k |-> 0]

\* Data codewords the segments of a call without url use at version v:
\* mode, length field, payload and the 4-bit terminator, to a byte boundary.
UsedCodewords(n, v) == (4 + SpecLengthWidth(MODE_BINARY, v) + 8 * n + 4 + 7) \div 8

\* C20: after a successful call without url the data codewords in tmp[] start
\* with the mode nibble 0100 and the length field, and after the payload, the
\* terminator and the zero bits to the byte boundary the bytes 0xEC, 0x11
\* alternate, from 0xEC, up to the data capacity of the selected version
\* (payload "A" at version 1: 0x40 0x14 0x10 0xEC 0x11 ...).
C20_Padding ==
    (Returned /\ ret # 0 /\ url.null /\ data = "buf" /\ tmp = "buf"
              /\ ShortLen(data_len)) =>
        /\ tmp_byte(0) \div 16 = MODE_BINARY
        /\ version <= 9 =>
              /\ tmp_byte(0) % 16 = N(data_len) \div 16
              /\ tmp_byte(1) \div 16 = N(data_len) % 16
        /\ \A i \in UsedCodewords(N(data_len), version)..(max_data(version) - 1) :
              tmp_byte(i) = PADDING[((i - UsedCodewords(N(data_len), version)) % 2) + 1]

(* ------------------------------------------------------------------ *)
(* The module grid in the output buffer                                *)
(* ------------------------------------------------------------------ *)

\* Byte i of data[] during and after a call: 0 where the memset has stored,
\* else a payload byte where the caller put the payload, else the byte the
\* buffer held before the call.
data_byte(i) ==
    IF i < data_cleared THEN 0
    ELSE IF ~IsSmall(data_len) \/ i < N(data_len) THEN PayloadByte
    ELSE fill

\* Module (row, col) of a symbol of width w in data[]: one bit per module,
\* row-major, rows of (w + 7) / 8 bytes, the leftmost module of a byte in
\* its high bit.
module_bit(row, col, w) ==
    (data_byte(row * ((w + 7) \div 8) + (col \div 8)) \div (2 ^ (7 - (col % 8)))) % 2

\* C21: after a successful call that returns width w the grid in data[] has
\* the finder patterns in three corners: the corner modules (0,0), (0,w-1)
\* and (w-1,0) are dark, the ring inside each 7x7 square is light (module
\* (1,1)) and so is the separator (module (7,0)).
C21_FinderPatterns ==
    (Returned /\ ret # 0 /\ data = "buf" /\ tmp = "buf") =>
        /\ module_bit(0, 0, ret) = 1
        /\ module_bit(0, ret - 1, ret) = 1
        /\ module_bit(ret - 1, 0, ret) = 1
        /\ module_bit(1, 1, ret) = 0
        /\ module_bit(7, 0, ret) = 0

(* ------------------------------------------------------------------ *)
(* Calls that differ in the payload bytes only                         *)
(* ------------------------------------------------------------------ *)

\* Two payloads of the same length that differ in their bytes.
Payloads == {"A", "B"}

\* Arguments of the calls: a payload of at least one byte (short, or one
\* byte more than version 40 holds), valid pointers and the minimum
\* capacities.
PayloadCalls ==
    [url : {NULL, [null |-> FALSE, len |-> 2]},
     data : {"buf"},
     data_len : {W(1), W(2), W(MaxSmallLen), W(2954)},
     data_size : {W(MIN_DATA_SIZE)},
     tmp : {"buf"},
     tmp_size : {W(MIN_TMP_SIZE)},
     fill : Fills]

\* A caller puts the payload p in data[] and enters drm_panic_qr_generate.
CallPayload(c, p) ==
    /\ pc = "idle"
    /\ Enter(c)
    /\ prev' = NoCall
    /\ payload' = p
    /\ prev_payload' = p
    /\ UNCHANGED <<reentrant, sized, field, fitting>>

\* The caller puts another payload p of the same length in data[], the rest
\* of both buffers as before the first call, and calls again with the same
\* arguments; the finished call is remembered in prev.
CallOtherPayload(p) ==
    /\ pc = "done"
    /\ p # payload
    /\ Enter([url |-> url, data |-> data, data_len |-> data_len,
              data_size |-> data_size, tmp |-> tmp, tmp_size |-> tmp_size,
              fill |-> fill])
    /\ prev' = [valid |-> TRUE, data_len |-> data_len, ret |-> ret,
                symbol |-> data_region(data_cleared, data_len, fill,
                                       symbol_bytes(ret))]
    /\ payload' = p
    /\ prev_payload' = payload
    /\ UNCHANGED <<reentrant, sized, field, fitting>>

NextPayload ==
    \/ \E c \in PayloadCalls, p \in Payloads : CallPayload(c, p)
    \/ \E p \in Payloads : CallOtherPayload(p)
    \/ Leave
    \/ CheckBuffers
    \/ BuildSegments
    \/ FindVersionStep
    \/ FindVersionNone
    \/ SetWidth
    \/ ClearOutput
    \/ Return

SpecPayload == Init /\ [][NextPayload]_vars

\* C22: two successful calls with the same url and data_len and different
\* payload bytes never leave the same contents in the symbol region of the
\* output buffer.
C22_Injective ==
    (Returned /\ ret # 0 /\ prev.valid /\ prev.ret # 0
              /\ prev.data_len = data_len /\ prev_payload # payload) =>
        data_region(data_cleared, data_len, fill, symbol_bytes(ret)) # prev.symbol

(* ------------------------------------------------------------------ *)
(* Lookups in the GF(256) tables and the generator tables              *)
(* ------------------------------------------------------------------ *)

\* The lengths of the generator tables the version table uses.
PolyLens == {VPARAM[v].poly_len : v \in 1..MAX_VERSION}

\* The values a u8 index takes.
Bytes == 0..255

\* EXP_TABLE[i] and LOG_TABLE[i] are read for an index i.
Lookup(i) ==
    /\ gf_i' = i
    /\ gf_log' = log_entry(i)
    /\ gf_exp' = exp_entry(i)
    /\ gen_k' = 0
    /\ gen_i' = 0
    /\ gen_entry' = 0
    /\ UNCHANGED <<pc, args, locals, ret, buffers, prev, reentrant, sized,
                   payloads, fitting>>

\* Entry i of the generator table P_k is read and looked up in the tables:
\* the entry is the logarithm of a coefficient, EXP_TABLE gives the
\* coefficient.
ReadEntry(k, i) ==
    /\ gen_k' = k
    /\ gen_i' = i
    /\ gen_entry' = poly_entry(k, i)
    /\ gf_i' = poly_entry(k, i)
    /\ gf_log' = log_entry(poly_entry(k, i))
    /\ gf_exp' = exp_entry(poly_entry(k, i))
    /\ UNCHANGED <<pc, args, locals, ret, buffers, prev, reentrant, sized,
                   payloads, fitting>>

NextField ==
    \/ \E i \in Bytes : Lookup(i)
    \/ \E k \in PolyLens : \E i \in 0..(k - 1) : ReadEntry(k, i)

SpecField == Init /\ [][NextField]_vars

\* C23: for every x in 1..255, EXP_TABLE[LOG_TABLE[x]] = x; for every i in
\* 0..254, LOG_TABLE[EXP_TABLE[i]] = i and EXP_TABLE[i] is not 0 (so EXP_TABLE
\* on 0..254 is a bijection onto 1..255).
C23_LogInvertsExp ==
    /\ gf_log = log_entry(gf_i) /\ gf_exp = exp_entry(gf_i)
    /\ gf_i \in 1..255 => exp_entry(gf_log) = gf_i
    /\ gf_i \in 0..254 => /\ gf_exp \in 1..255
                          /\ log_entry(gf_exp) = gf_i

\* The last field element and the last exponent have been looked up.
C23_Witness ==
    /\ gen_k = 0
    /\ gf_i = 254 /\ gf_exp = 142 /\ gf_log = 88

\* Multiplication by x (alpha = 2) in GF(256) with the reduction polynomial
\* x^8 + x^4 + x^3 + x^2 + 1 (0x11D), without the tables.
RefTimesAlpha(a) == IF 2 * a >= 256 THEN XorBits(2 * a, 285, 9) ELSE 2 * a

RECURSIVE RefMul(_, _)
\* Product in GF(256) by shift and add.
RefMul(a, b) ==
    IF b = 0 THEN 0
    ELSE gf_add(IF b % 2 = 1 THEN a ELSE 0, RefMul(RefTimesAlpha(a), b \div 2))

RECURSIVE RefAlpha(_)
\* alpha^i.
RefAlpha(i) == IF i = 0 THEN 1 ELSE RefTimesAlpha(RefAlpha(i - 1))

RECURSIVE RefTimesRoot(_, _, _, _)
\* The polynomial c (coefficients from the highest power down) times
\* (x - root), built from coefficient j on; minus is plus in GF(256).
RefTimesRoot(c, root, j, acc) ==
    IF j > Len(c) + 1 THEN acc
    ELSE RefTimesRoot(c, root, j + 1,
                      Append(acc, gf_add(IF j <= Len(c) THEN c[j] ELSE 0,
                                         IF j >= 2 THEN RefMul(root, c[j - 1])
                                         ELSE 0)))

RECURSIVE RefProduct(_, _, _)
\* c times (x - alpha^i) ... (x - alpha^(k-1)).
RefProduct(c, i, k) ==
    IF i >= k THEN c
    ELSE LET s == RefTimesRoot(c, RefAlpha(i), 1, << >>)
         IN IF Len(s) = Len(c) + 1 THEN RefProduct(s, i + 1, k) ELSE s

\* The monic polynomial of degree k with the roots alpha^0 .. alpha^(k-1):
\* k + 1 coefficients, the leading 1 first.
RefGenerator(k) == RefProduct(<<1>>, 0, k)

\* C30: the poly of every version is the table P_k with k = poly_len entries,
\* k one of 7, 10, 15, 18, 20, 22, 24, 26, 28, 30; and entry i of P_k is the
\* logarithm (LOG_TABLE) of the coefficient of x^(k-1-i) of the monic
\* polynomial with the roots alpha^0 .. alpha^(k-1) over GF(256) reduced by
\* 0x11D.
C30_GeneratorTables ==
    /\ PolyLens = {7, 10, 15, 18, 20, 22, 24, 26, 28, 30}
    /\ \A v \in 1..MAX_VERSION :
          /\ VPARAM[v].poly = poly_of(VPARAM[v].poly_len)
          /\ Len(VPARAM[v].poly) = VPARAM[v].poly_len
    /\ gen_k > 0 =>
          LET c == RefGenerator(gen_k)[gen_i + 2]
          IN /\ gen_entry = poly_entry(gen_k, gen_i)
             /\ c # 0
             /\ log_entry(c) = gen_entry
             /\ gf_exp = c

\* The last entry of the longest table has been read.
C30_Witness ==
    gen_k = 30 /\ gen_i = 29 /\ gen_entry = 180

\* C24: a call that returns 0 (undersized buffer, data_len > data_size or no
\* fitting version) has stored to no byte of data[] and of tmp[] and has
\* used no pointer: both buffers are as before the call.
C24_FailureWritesNothing ==
    (Returned /\ ret = 0) =>
        /\ data_cleared = 0
        /\ tmp_written = 0
        /\ ~null_deref
        /\ data_byte(0) = (IF data_len = W(0) THEN fill ELSE PayloadByte)

\* A call with a payload has failed after scanning all 40 versions.
C24_Witness ==
    /\ Returned /\ ret = 0
    /\ scan > MAX_VERSION /\ data_len # W(0)
    /\ ~buffers_rejected(data_len, data_size, tmp_size)

\* C25: in every call the bytes written to data[] have an index below
\* width * ceil(width / 8) <= 4071 <= data_size for the returned width (the
\* bytes from that index on are as before the call), and no byte of tmp[] is
\* written at an index >= tmp_size.
C25_WritesInBounds ==
    /\ data_cleared > 0 =>
          /\ data_cleared <= width * ((width + 7) \div 8)
          /\ width * ((width + 7) \div 8) <= 4071
          /\ WLeq(W(4071), data_size)
          /\ Returned => ret = width
    /\ tmp_written > 0 => WLeq(W(tmp_written), tmp_size)

\* The largest symbol has been cleared in an output buffer of exactly the
\* minimum capacity.
C25_Witness ==
    /\ Returned /\ ret = 177
    /\ data_cleared = 4071 /\ data_size = W(4071)

RECURSIVE TrueTotalBits(_, _, _)
\* The sum find_version means: 4 + length_bits + len * 8 over the first num
\* segments, as mathematical integers (no reduction modulo 2^SIZE_BITS).
TrueTotalBits(segs, num, v) ==
    IF num = 0 THEN W(0)
    ELSE WAdd(TrueTotalBits(segs, num - 1, v),
              WAdd(W(4 + length_bits(segs[num].mode, v)), WMul(segs[num].len, 8)))

\* C26: the total_bits find_version compares is the mathematical sum of the
\* segment costs for every data_len and url length of a size_t, and no call
\* succeeds with a payload whose true cost exceeds the capacity of version
\* 40.
C26_NoWrap ==
    /\ (pc = "find" /\ scan <= MAX_VERSION) =>
          total_bits(segments, Len(segments), scan)
              = TrueTotalBits(segments, Len(segments), scan)
    /\ (Returned /\ ret # 0) =>
          WLeq(TrueTotalBits(segments, Len(segments), MAX_VERSION),
               W(max_data_bits(MAX_VERSION)))

(* ------------------------------------------------------------------ *)
(* Segment lists assessed at a version and the next                    *)
(* ------------------------------------------------------------------ *)

\* Bits version v leaves for the digits after a url of u bytes and the two
\* segment headers.
DigitBits(v, u) ==
    max_data_bits(v) - (4 + length_bits(MODE_BINARY, v) + 8 * u)
                     - (4 + length_bits(MODE_NUMERIC, v))

\* Segment lists close to what version v holds: one binary segment of up to
\* max_data(v) bytes, one whose length wraps in len * 8, and a url with a
\* numeric segment of about as many digits as fit at 10 bits per 3 digits and
\* at 8 bits per digit.
SegmentsNear(v) ==
    {<< [mode |-> MODE_BINARY, len |-> W(n)] >> :
        n \in (max_data(v) - 4)..max_data(v)}
    \cup {<< [mode |-> MODE_BINARY, len |-> WrapLen] >>}
    \cup {<< [mode |-> MODE_BINARY, len |-> W(2)],
             [mode |-> MODE_NUMERIC, len |-> W(n)] >> :
        n \in {(3 * DigitBits(v, 2)) \div 10 + d : d \in (-2)..2}
              \cup {DigitBits(v, 2) \div 8 + d : d \in (-1)..1}}

\* find_version's test is applied to a segment list at a version below 40
\* (and then at the next one).
Assess(segs, v) ==
    /\ fit_segs' = segs
    /\ fit_version' = v
    /\ UNCHANGED <<pc, args, locals, ret, buffers, prev, reentrant, sized,
                   payloads, field>>

NextFitting ==
    \E v \in 1..(MAX_VERSION - 1) : \E segs \in SegmentsNear(v) : Assess(segs, v)

SpecFitting == Init /\ [][NextFitting]_vars

\* C27: for every segment list and every v in 1..39, if the list fits v it
\* fits v + 1, with the cost and capacity of the specification and with the
\* test find_version computes, across the tier boundaries 9 -> 10 and
\* 26 -> 27 too.
C27_UpwardClosed ==
    fit_segs # << >> =>
        /\ SpecFits(fit_segs, fit_version) => SpecFits(fit_segs, fit_version + 1)
        /\ version_fits(fit_segs, fit_version)
               => version_fits(fit_segs, fit_version + 1)

\* A url and digits that fill version 26 to within 10 bits are assessed at
\* the boundary 26 -> 27.
C27_Witness ==
    /\ fit_version = 26 /\ Len(fit_segs) = 2
    /\ SpecFits(fit_segs, 26)
    /\ SpecTotalCost(fit_segs, 26) > capacity_bits(26) - 10

\* C28: for every version v in 1..40 and every url_len > 0 with
\* url_len + 5 >= capacity(v) as mathematical integers (url_len + 5 may wrap
\* in size_t), drm_panic_qr_max_data_size returns 0; and what it returns is
\* never above capacity(v), the data codewords of v.
C28_LongUrlRejected ==
    (pc = "sized" /\ mds_version \in 1..MAX_VERSION) =>
        /\ (mds_url_len # W(0)
              /\ WLeq(W(max_data(mds_version)), WAdd(mds_url_len, W(5))))
               => mds_ret = W(0)
        /\ WLeq(mds_ret, W(max_data(mds_version)))

(* ------------------------------------------------------------------ *)
(* Buffer minimums and block limits                                    *)
(* ------------------------------------------------------------------ *)

MAX_EC_SIZE == 30
MAX_BLK_SIZE == 123

\* The largest block of version v: g1_blk_size, or one more when the version
\* has blocks in the second group.
largest_block(v) ==
    VPARAM[v].g1_blk_size + (IF VPARAM[v].g2_blocks > 0 THEN 1 ELSE 0)

\* C29: for every version v the scan of find_version reaches, the symbol of
\* v needs at most 4071 bytes of data[] and at most 3706 codewords of tmp[],
\* with equality in both at v = 40; the largest block of v has at most
\* MAX_BLK_SIZE bytes and poly_len is at most MAX_EC_SIZE.
C29_MinimumsBoundEveryVersion ==
    (pc = "find" /\ scan \in 1..MAX_VERSION) =>
        /\ symbol_bytes(width_of(scan)) <= MIN_DATA_SIZE
        /\ total_codewords(scan) <= MIN_TMP_SIZE
        /\ scan = MAX_VERSION =>
              /\ symbol_bytes(width_of(scan)) = MIN_DATA_SIZE
              /\ total_codewords(scan) = MIN_TMP_SIZE
        /\ largest_block(scan) <= MAX_BLK_SIZE
        /\ VPARAM[scan].poly_len <= MAX_EC_SIZE

\* The scan stands at version 40, where both minimums are met exactly.
C29_Witness ==
    /\ pc = "find"
    /\ scan = MAX_VERSION
    /\ symbol_bytes(width_of(scan)) = MIN_DATA_SIZE
    /\ total_codewords(scan) = MIN_TMP_SIZE

====
